---- MODULE Spec2Model ----
(***************************************************************************)
(* News Researcher (app.py, populate_database.py): the Streamlit script,   *)
(* its session state, the on-disk Chroma index and the deferred-deletion   *)
(* marker.  One script run is: check_deletion_marker (app.py:57), the form *)
(* handlers (app.py:89-110), the question section (app.py:116-161).        *)
(* Streamlit executes the whole script again on every user interaction, so *)
(* a process performs many script runs; session_state survives between the *)
(* runs of one process and is lost when the process is restarted.          *)
(***************************************************************************)
EXTENDS Integers, Sequences, FiniteSets, TLC

VARIABLES
    marker_file,      \* delete_chroma.marker exists on disk
    chroma_dir,       \* the CHROMA_PATH directory exists on disk
    index,            \* entries of the on-disk index, in insertion order
    session_key,      \* "processed_urls" in st.session_state
    processed_urls,   \* st.session_state.processed_urls
    question,         \* value held by the question text_input
    question_shown,   \* the question text_input was rendered by the last run
    pc,               \* position of the current script run
    trigger,          \* what caused the current script run
    db_cleared,       \* first result of check_deletion_marker()
    messages,         \* second result of check_deletion_marker()
    ui,               \* messages displayed by the current script run
    run_status,       \* "none" | "running" | "completed" | "exception"
                      \* (of the script run in progress or just finished)
    last_check,       \* what the last check_deletion_marker() call did
    startup,          \* the process has not finished its first script run
    marker_this_proc, \* the marker on disk was written by the running process
    locked_resolved,  \* a marker was consumed on a lock failure, no clear since
    clear_called,     \* clear_database() has been called at least once
    added,            \* every chunk passed to a successful add_to_chroma()
    ingested,         \* URLs fetched with text and added by the running process
    f_urls,           \* fetch_content: argument
    f_outs,           \* fetch_content: what each request/parse yields
    f_result,         \* fetch_content: returned list
    f_pc              \* fetch_content: "call" | "done"

vars == <<marker_file, chroma_dir, index, session_key, processed_urls, question,
          question_shown, pc, trigger, db_cleared, messages, ui, run_status,
          last_check, startup, marker_this_proc, locked_resolved,
          clear_called, added, ingested, f_urls, f_outs, f_result, f_pc>>

disk == <<marker_file, chroma_dir, index>>
hist == <<locked_resolved, clear_called, added>>
fvars == <<f_urls, f_outs, f_result, f_pc>>
appvars == <<marker_file, chroma_dir, index, session_key, processed_urls, question,
             question_shown, pc, trigger, db_cleared, messages, ui,
             run_status, last_check, startup, marker_this_proc,
             locked_resolved, clear_called, added, ingested>>

(***************************************************************************)
(* Bounds and input domains                                                *)
(***************************************************************************)
MaxEntries == 2
MaxUrls == 3
NumUrlFields == 3
URLS == {"a", "b"}
Blank == ""

\* what one URL yields inside the try block of fetch_content:
\* an exception, empty text, text of at most 800 characters, longer text
FetchOutcomes == {"fail", "empty", "text", "long"}
RmtreeOutcomes == {"ok", "locked", "error"}
RemoveOutcomes == {"ok", "error"}
WriteOutcomes == {"ok", "error"}
AddOutcomes == {"ok", "open_error", "add_error"}
CallOutcomes == {"ok", "error"}

SeqsUpTo(S, n) == UNION {[1..k -> S] : k \in 0..n}

\* what the user typed into url1, url2, url3: any field may stay blank,
\* the URLs typed are distinct
FormInputs ==
    {f \in [1..NumUrlFields -> URLS \cup {Blank}] :
        \A i, j \in 1..NumUrlFields : (i # j /\ f[i] # Blank) => f[i] # f[j]}

(***************************************************************************)
(* Messages                                                                *)
(***************************************************************************)
MsgLocked == <<"error", "Database files are still locked">>
MsgCleared == <<"success", "Database cleared successfully on startup">>
MsgFailed == <<"error", "Failed to clear database on startup">>
MsgNoUrl == <<"warning", "Please enter at least one URL.">>
MsgProcessed == <<"success", "Processed articles successfully!">>
MsgNoContent == <<"error", "No content could be retrieved">>
MsgMarked == <<"success", "Database marked for deletion">>
MsgMarkError == <<"error", "Error marking database for deletion">>
MsgReady == <<"success", "Ready to answer questions">>
MsgAnswer == <<"markdown", "Answer">>
MsgGenError == <<"error", "Error generating response">>
MsgNoData == <<"warning", "No data in the database">>
MsgGetStarted == <<"info", "Please enter and process some URLs">>

Range(s) == {s[i] : i \in DOMAIN s}

(***************************************************************************)
(* populate_database.py                                                    *)
(***************************************************************************)
\* variant: the first failing URL ends the loop
RECURSIVE fetch_content_abort(_, _)
fetch_content_abort(urls, outs) ==
    IF urls = <<>> THEN <<>>
    ELSE IF Head(outs) = "fail" THEN <<>>
    ELSE (IF Head(outs) \in {"text", "long"}
          THEN <<[source |-> Head(urls), long |-> Head(outs) = "long"]>>
          ELSE <<>>) \o fetch_content_abort(Tail(urls), Tail(outs))

\* for url in urls: try: ... if text: content.append(Document(...))
\*                  except Exception: st.error(...)
RECURSIVE fetch_content(_, _)
fetch_content(urls, outs) ==
    IF urls = <<>> THEN <<>>
    ELSE (IF Head(outs) \in {"text", "long"}
          THEN <<[source |-> Head(urls), long |-> Head(outs) = "long"]>>
          ELSE <<>>) \o fetch_content(Tail(urls), Tail(outs))

\* a document of at most chunk_size characters is one chunk, a longer one
\* is split; every chunk keeps the metadata of its document
RECURSIVE split_document(_)
split_document(documents) ==
    IF documents = <<>> THEN <<>>
    ELSE LET d == Head(documents)
         IN  (IF d.long
              THEN <<[source |-> d.source, part |-> 1],
                     [source |-> d.source, part |-> 2]>>
              ELSE <<[source |-> d.source, part |-> 1]>>)
             \o split_document(Tail(documents))

\* variant: the collection is built anew from the chunks of this call
add_to_chroma_rebuild(dir, idx, chunks, outcome) ==
    IF outcome = "open_error"
    THEN [dir |-> dir, index |-> idx, raised |-> TRUE]
    ELSE IF outcome = "add_error"
    THEN [dir |-> TRUE, index |-> idx, raised |-> TRUE]
    ELSE [dir |-> TRUE, index |-> chunks, raised |-> FALSE]

\* Chroma(persist_directory=CHROMA_PATH, ...) creates the directory when it
\* is missing; add_documents() stores every chunk under a fresh id
add_to_chroma(dir, idx, chunks, outcome) ==
    IF outcome = "open_error"
    THEN [dir |-> dir, index |-> idx, raised |-> TRUE]
    ELSE IF outcome = "add_error"
    THEN [dir |-> TRUE, index |-> idx, raised |-> TRUE]
    ELSE [dir |-> TRUE, index |-> idx \o chunks, raised |-> FALSE]

\* variant: the directory is removed while the process is running
clear_database_inplace(marker, dir, idx, w) ==
    IF w = "ok"
    THEN [marker |-> marker, dir |-> FALSE, index |-> <<>>, ui |-> {MsgMarked}]
    ELSE [marker |-> marker, dir |-> dir, index |-> idx, ui |-> {MsgMarkError}]

\* try: open(marker_file, 'w') ... except Exception: st.error(...)
clear_database(marker, dir, idx, w) ==
    IF w = "ok"
    THEN [marker |-> TRUE, dir |-> dir, index |-> idx, ui |-> {MsgMarked}]
    ELSE [marker |-> marker, dir |-> dir, index |-> idx, ui |-> {MsgMarkError}]

(***************************************************************************)
(* app.py: check_deletion_marker                                           *)
(*   rt: what shutil.rmtree(CHROMA_PATH) does when it is called            *)
(*   r1: what os.remove(marker_file) at line 41 does when it is called     *)
(*   r2: what os.remove(marker_file) at line 50 does when it is called     *)
(***************************************************************************)
NoCheck == [marker |-> FALSE, rmtree |-> "none", rm1 |-> "none", rm2 |-> "none"]

HandlerResult(dir, idx, msgs, rtd, r1d, r2) ==
    \* except Exception as e: (lines 47-53), then line 54
    [marker |-> r2 # "ok", dir |-> dir, index |-> idx,
     cleared |-> FALSE, messages |-> Append(msgs, MsgFailed),
     did |-> [marker |-> TRUE, rmtree |-> rtd, rm1 |-> r1d, rm2 |-> r2]]

\* variant: rmtree is given a path that is not the index directory
check_deletion_marker_wrongdir(marker, dir, idx, rt, r1, r2) ==
    IF ~marker
    THEN [marker |-> FALSE, dir |-> dir, index |-> idx, cleared |-> FALSE,
          messages |-> <<>>, did |-> NoCheck]
    ELSE LET rtd == IF dir THEN rt ELSE "none"
             msgs1 == IF rtd = "locked" THEN <<MsgLocked>> ELSE <<>>
         IN  IF rtd = "error"
             THEN HandlerResult(dir, idx, msgs1, rtd, "none", r2)
             ELSE IF r1 # "ok"
             THEN HandlerResult(dir, idx, msgs1, rtd, r1, r2)
             ELSE [marker |-> FALSE, dir |-> dir, index |-> idx,
                   cleared |-> TRUE,
                   messages |-> IF ~dir THEN Append(msgs1, MsgCleared)
                                ELSE msgs1,
                   did |-> [marker |-> TRUE, rmtree |-> rtd, rm1 |-> r1,
                            rm2 |-> "none"]]

\* variant: the marker is removed only when the directory removal worked
check_deletion_marker_keepmarker(marker, dir, idx, rt, r1, r2) ==
    IF ~marker
    THEN [marker |-> FALSE, dir |-> dir, index |-> idx, cleared |-> FALSE,
          messages |-> <<>>, did |-> NoCheck]
    ELSE LET rtd == IF dir THEN rt ELSE "none"
             dir1 == IF rtd = "ok" THEN FALSE ELSE dir
             idx1 == IF rtd = "ok" THEN <<>> ELSE idx
         IN  IF rtd = "error"
             THEN HandlerResult(dir1, idx1, <<>>, rtd, "none", r2)
             ELSE IF rtd = "locked"
             THEN [marker |-> TRUE, dir |-> dir1, index |-> idx1,
                   cleared |-> TRUE, messages |-> <<MsgLocked>>,
                   did |-> [marker |-> TRUE, rmtree |-> rtd, rm1 |-> "none",
                            rm2 |-> "none"]]
             ELSE IF r1 # "ok"
             THEN HandlerResult(dir1, idx1, <<>>, rtd, r1, r2)
             ELSE [marker |-> FALSE, dir |-> dir1, index |-> idx1,
                   cleared |-> TRUE,
                   messages |-> IF ~dir1 THEN <<MsgCleared>> ELSE <<>>,
                   did |-> [marker |-> TRUE, rmtree |-> rtd, rm1 |-> r1,
                            rm2 |-> "none"]]

\* variant: success is reported without looking at the directory
check_deletion_marker_always_success(marker, dir, idx, rt, r1, r2) ==
    IF ~marker
    THEN [marker |-> FALSE, dir |-> dir, index |-> idx, cleared |-> FALSE,
          messages |-> <<>>, did |-> NoCheck]
    ELSE LET rtd == IF dir THEN rt ELSE "none"
             dir1 == IF rtd = "ok" THEN FALSE ELSE dir
             idx1 == IF rtd = "ok" THEN <<>> ELSE idx
             msgs1 == IF rtd = "locked" THEN <<MsgLocked>> ELSE <<>>
         IN  IF rtd = "error"
             THEN HandlerResult(dir1, idx1, msgs1, rtd, "none", r2)
             ELSE IF r1 # "ok"
             THEN HandlerResult(dir1, idx1, msgs1, rtd, r1, r2)
             ELSE [marker |-> FALSE, dir |-> dir1, index |-> idx1,
                   cleared |-> TRUE,
                   messages |-> Append(msgs1, MsgCleared),
                   did |-> [marker |-> TRUE, rmtree |-> rtd, rm1 |-> r1,
                            rm2 |-> "none"]]

check_deletion_marker(marker, dir, idx, rt, r1, r2) ==
    IF ~marker
    THEN \* line 23 false: return False, []
         [marker |-> FALSE, dir |-> dir, index |-> idx, cleared |-> FALSE,
          messages |-> <<>>, did |-> NoCheck]
    ELSE LET rtd == IF dir THEN rt ELSE "none"       \* line 30
             dir1 == IF rtd = "ok" THEN FALSE ELSE dir
             idx1 == IF rtd = "ok" THEN <<>> ELSE idx
             msgs1 == IF rtd = "locked" THEN <<MsgLocked>> ELSE <<>>
         IN  IF rtd = "error"
             THEN HandlerResult(dir1, idx1, msgs1, rtd, "none", r2)
             ELSE IF r1 # "ok"
             THEN HandlerResult(dir1, idx1, msgs1, rtd, r1, r2)
             ELSE [marker |-> FALSE, dir |-> dir1, index |-> idx1,
                   cleared |-> TRUE,
                   messages |-> IF ~dir1 THEN Append(msgs1, MsgCleared)
                                ELSE msgs1,
                   did |-> [marker |-> TRUE, rmtree |-> rtd, rm1 |-> r1,
                            rm2 |-> "none"]]

\* [url for url in [url1, url2, url3] if url]
NonBlank(fields) == SelectSeq(fields, LAMBDA u : u # Blank)

(***************************************************************************)
(* Initial state: a fresh checkout, the server just started                *)
(***************************************************************************)
InitProcess ==
    /\ session_key = FALSE
    /\ processed_urls = <<>>
    /\ question = Blank
    /\ question_shown = FALSE
    /\ pc = "idle"
    /\ trigger = "none"
    /\ db_cleared = FALSE
    /\ messages = <<>>
    /\ ui = {}
    /\ run_status = "none"
    /\ last_check = NoCheck
    /\ startup = TRUE
    /\ marker_this_proc = FALSE
    /\ ingested = {}

Init ==
    /\ marker_file = FALSE
    /\ chroma_dir = FALSE
    /\ index = <<>>
    /\ InitProcess
    /\ locked_resolved = FALSE
    /\ clear_called = FALSE
    /\ added = <<>>
    /\ f_urls = <<>>
    /\ f_outs = <<>>
    /\ f_result = <<>>
    /\ f_pc = "done"

(***************************************************************************)
(* A user interaction (or the first page load) starts a script run         *)
(***************************************************************************)
Triggers ==
    IF startup THEN {"load"}
    ELSE {"load", "process", "clear"}
         \cup (IF question_shown THEN {"question"} ELSE {})

StartRun ==
    /\ pc = "idle"
    /\ \E t \in Triggers :
         /\ trigger' = t
         /\ question' = IF t = "question"
                        THEN CHOOSE q \in {Blank, "q"} : q # question
                        ELSE question
    /\ pc' = "check"
    /\ run_status' = "running"
    /\ UNCHANGED <<disk, session_key, processed_urls, question_shown,
                   db_cleared, messages, ui, last_check, startup,
                   marker_this_proc, hist, ingested, fvars>>

\* app.py:57-74: the check, the session state default, the message display
CheckDeletionMarker ==
    /\ pc = "check"
    /\ \E rt \in RmtreeOutcomes, r1 \in RemoveOutcomes, r2 \in RemoveOutcomes :
         LET c == check_deletion_marker(marker_file, chroma_dir, index,
                                        rt, r1, r2)
         IN  /\ marker_file' = c.marker
             /\ chroma_dir' = c.dir
             /\ index' = c.index
             /\ db_cleared' = c.cleared
             /\ messages' = c.messages
             /\ ui' = Range(c.messages)
             /\ last_check' = c.did
             /\ marker_this_proc' = (marker_this_proc /\ c.marker)
             /\ locked_resolved' =
                    IF c.did.rmtree = "locked" /\ ~c.marker THEN TRUE
                    ELSE locked_resolved
    /\ session_key' = TRUE
    /\ processed_urls' = IF session_key THEN processed_urls ELSE <<>>
    /\ pc' = "form"
    /\ UNCHANGED <<question, question_shown, trigger, run_status, startup,
                   clear_called, added, ingested, fvars>>

\* an exception nobody catches ends the script run; the server goes on
Raise ==
    /\ pc' = "done"
    /\ run_status' = "exception"
    /\ startup' = FALSE
    /\ question' = Blank
    /\ question_shown' = FALSE

\* app.py:89-105
ProcessArticles ==
    /\ pc = "form"
    /\ trigger = "process"
    /\ \E fields \in FormInputs :
         LET urls == NonBlank(fields)
         IN  \E outs \in [1..Len(urls) -> FetchOutcomes], a \in AddOutcomes :
               LET documents == fetch_content(urls, outs)
                   chunks == split_document(documents)
                   r == add_to_chroma(chroma_dir, index, chunks, a)
               IN  IF urls = <<>>
                   THEN /\ ui' = ui \cup {MsgNoUrl}
                        /\ pc' = "question"
                        /\ UNCHANGED <<disk, processed_urls, added, ingested,
                                       run_status, startup, question,
                                       question_shown>>
                   ELSE IF documents = <<>>
                   THEN /\ ui' = ui \cup {MsgNoContent}
                        /\ pc' = "question"
                        /\ UNCHANGED <<disk, processed_urls, added, ingested,
                                       run_status, startup, question,
                                       question_shown>>
                   ELSE /\ Len(added) + Len(chunks) <= MaxEntries
                        /\ chroma_dir' = r.dir
                        /\ index' = r.index
                        /\ UNCHANGED marker_file
                        /\ IF r.raised
                           THEN /\ Raise
                                /\ UNCHANGED <<ui, processed_urls, added,
                                               ingested>>
                           ELSE /\ processed_urls' = urls
                                /\ ui' = ui \cup {MsgProcessed}
                                /\ added' = added \o chunks
                                /\ ingested' = ingested \cup
                                      {documents[i].source :
                                          i \in DOMAIN documents}
                                /\ pc' = "question"
                                /\ UNCHANGED <<run_status, startup, question,
                                               question_shown>>
    /\ UNCHANGED <<session_key, trigger, db_cleared, messages, last_check,
                   marker_this_proc, locked_resolved, clear_called, fvars>>

\* app.py:107-110
ClearDatabase ==
    /\ pc = "form"
    /\ trigger = "clear"
    /\ \E w \in WriteOutcomes :
         LET r == clear_database(marker_file, chroma_dir, index, w)
         IN  /\ marker_file' = r.marker
             /\ chroma_dir' = r.dir
             /\ index' = r.index
             /\ ui' = ui \cup r.ui
             /\ marker_this_proc' = IF w = "ok" THEN TRUE ELSE marker_this_proc
             /\ locked_resolved' = IF w = "ok" THEN FALSE ELSE locked_resolved
    /\ processed_urls' = <<>>
    /\ clear_called' = TRUE
    /\ pc' = "question"
    /\ UNCHANGED <<session_key, question, question_shown, trigger, db_cleared,
                   messages, run_status, last_check, startup, added, ingested,
                   fvars>>

\* neither form button was pressed
NoButton ==
    /\ pc = "form"
    /\ trigger \in {"load", "question"}
    /\ pc' = "question"
    /\ UNCHANGED <<disk, session_key, processed_urls, question, question_shown,
                   trigger, db_cleared, messages, ui, run_status, last_check,
                   startup, marker_this_proc, hist, ingested, fvars>>

Complete ==
    /\ pc' = "done"
    /\ run_status' = "completed"
    /\ startup' = FALSE

\* app.py:116-161
QuestionSection ==
    /\ pc = "question"
    /\ IF processed_urls # <<>>
       THEN /\ question_shown' = TRUE
            /\ question' = IF question_shown THEN question ELSE Blank
            /\ IF question' # Blank
               THEN IF chroma_dir
                    THEN \E setup \in CallOutcomes, run \in CallOutcomes :
                           IF setup # "ok"
                           THEN \* lines 125-140 are outside the try
                                /\ pc' = "done"
                                /\ run_status' = "exception"
                                /\ startup' = FALSE
                                /\ ui' = ui \cup {MsgReady}
                           ELSE /\ Complete
                                /\ ui' = ui \cup {MsgReady} \cup
                                     (IF run = "ok" THEN {MsgAnswer}
                                      ELSE {MsgGenError})
                    ELSE /\ Complete
                         /\ ui' = ui \cup {MsgReady, MsgNoData}
               ELSE /\ Complete
                    /\ ui' = ui \cup {MsgReady}
       ELSE /\ question_shown' = FALSE
            /\ question' = Blank
            /\ Complete
            /\ ui' = ui \cup {MsgGetStarted}
    /\ UNCHANGED <<disk, session_key, processed_urls, trigger, db_cleared,
                   messages, last_check, marker_this_proc, hist, ingested,
                   fvars>>

\* the script run is over: its variables and its output channel are gone,
\* the session state and the widget values stay
EndRun ==
    /\ pc = "done"
    /\ pc' = "idle"
    /\ trigger' = "none"
    /\ db_cleared' = FALSE
    /\ messages' = <<>>
    /\ ui' = {}
    /\ run_status' = "none"
    /\ last_check' = NoCheck
    /\ UNCHANGED <<disk, session_key, processed_urls, question, question_shown,
                   startup, marker_this_proc, hist, ingested, fvars>>

\* the server is stopped and started again: the disk stays, the session goes
Restart ==
    /\ ~(pc = "idle" /\ startup)
    /\ session_key' = FALSE
    /\ processed_urls' = <<>>
    /\ question' = Blank
    /\ question_shown' = FALSE
    /\ pc' = "idle"
    /\ trigger' = "none"
    /\ db_cleared' = FALSE
    /\ messages' = <<>>
    /\ ui' = {}
    /\ run_status' = "none"
    /\ last_check' = NoCheck
    /\ startup' = TRUE
    /\ marker_this_proc' = FALSE
    /\ ingested' = {}
    /\ UNCHANGED <<disk, hist, fvars>>

Next ==
    \/ StartRun
    \/ CheckDeletionMarker
    \/ ProcessArticles
    \/ ClearDatabase
    \/ NoButton
    \/ QuestionSection
    \/ EndRun
    \/ Restart

Spec == Init /\ [][Next]_vars

(***************************************************************************)
(* fetch_content on its own: any list of URLs, any outcome per URL         *)
(***************************************************************************)
InitFetch ==
    /\ marker_file = FALSE
    /\ chroma_dir = FALSE
    /\ index = <<>>
    /\ InitProcess
    /\ locked_resolved = FALSE
    /\ clear_called = FALSE
    /\ added = <<>>
    /\ f_urls \in SeqsUpTo(URLS, MaxUrls)
    /\ f_outs \in [1..Len(f_urls) -> FetchOutcomes]
    /\ f_result = <<>>
    /\ f_pc = "call"

FetchCall ==
    /\ f_pc = "call"
    /\ f_result' = fetch_content(f_urls, f_outs)
    /\ f_pc' = "done"
    /\ UNCHANGED <<f_urls, f_outs, appvars>>

NextFetch == FetchCall

SpecFetch == InitFetch /\ [][NextFetch]_vars

(***************************************************************************)
(* Properties                                                              *)
(***************************************************************************)
CheckStep == pc = "check" /\ pc' = "form"

\* C1: a marker is resolved only by the first script run of a later process
\* than the one whose clear() wrote it: a check never finds (and so never
\* acts on) a marker while the process that wrote it is still running, and
\* only the startup run of a process resolves a marker.
C1_ResolvedOnlyAtNextStartup ==
    [][(CheckStep /\ last_check'.marker)
          => (startup /\ ~marker_this_proc)]_vars

\* C2: happy path of clear: when the startup check finds the marker, the
\* index directory is not locked and no removal raises, then after the check
\* neither the index directory nor the marker file exists.
C2_HappyPath ==
    (/\ pc = "form" /\ startup
     /\ last_check.marker
     /\ last_check.rmtree \in {"ok", "none"}
     /\ last_check.rm1 # "error")
        => (~chroma_dir /\ ~marker_file)

C2_Witness ==
    /\ pc = "form" /\ startup
    /\ last_check.marker
    /\ last_check.rmtree = "ok"
    /\ last_check.rm1 = "ok"
    /\ added # <<>>
    /\ ~chroma_dir /\ ~marker_file

LockedEnd ==
    /\ ~marker_file
    /\ chroma_dir
    /\ MsgLocked \in ui
    /\ run_status = "running"

NoRetry ==
    [][(CheckStep /\ last_check'.rmtree # "none") => ~locked_resolved]_vars

Surfaced == ui' = Range(messages')

OutcomeSuccess ==
    /\ marker_file
    /\ messages' = <<MsgCleared>>
    /\ ~chroma_dir'

OutcomeLocked ==
    /\ marker_file
    /\ messages' = <<MsgLocked>>
    /\ last_check'.rmtree = "locked"

OutcomeNoAction ==
    /\ ~marker_file
    /\ messages' = <<>>
    /\ UNCHANGED disk

OutcomeFailed ==
    /\ marker_file
    /\ \/ last_check'.rmtree = "error"
       \/ last_check'.rm1 = "error"
    /\ \/ messages' = <<MsgFailed>>
       \/ /\ messages' = <<MsgLocked, MsgFailed>>
          /\ last_check'.rmtree = "locked"

\* C4 as stated: every run of the startup check surfaces exactly one of
\* deletion success, deletion blocked (locked), no action needed.
C4_Original ==
    [][CheckStep => (/\ Surfaced
                     /\ \/ OutcomeSuccess
                        \/ OutcomeLocked
                        \/ OutcomeNoAction)]_vars

\* C4 amended: every run of the startup check surfaces exactly one of
\* deletion success, deletion blocked (locked), no action needed, as long as
\* no removal fails with an error other than the directory lock; when the
\* directory removal fails with another error or the marker removal fails,
\* "Failed to clear database on startup" is surfaced in place of the success
\* message (after the locked message when the directory was locked).
C4_Outcomes ==
    [][CheckStep =>
          (/\ Surfaced
           /\ IF last_check'.rmtree = "error" \/ last_check'.rm1 = "error"
              THEN OutcomeFailed
              ELSE \/ OutcomeSuccess /\ ~OutcomeLocked
                   \/ OutcomeLocked /\ chroma_dir'
                   \/ OutcomeNoAction)]_vars

C4_Witness ==
    /\ pc = "form"
    /\ messages = <<MsgLocked, MsgFailed>>
    /\ ui = {MsgLocked, MsgFailed}

\* C5: the processed-URL state holds only URLs that were fetched with text
\* and added to the index by the running process.
C5_OnlySuccessfullyIngested ==
    Range(processed_urls) \subseteq ingested

TextPositions(outs) ==
    SelectSeq([i \in 1..Len(outs) |-> i],
              LAMBDA i : outs[i] \in {"text", "long"})

\* C6: fetch_content returns, in input order, exactly one document per input
\* position that yielded non-empty text, with that position's URL as source;
\* failing and empty URLs contribute nothing and stop nothing.
C6_FetchIsolation ==
    f_pc = "done" =>
        LET pos == TextPositions(f_outs)
        IN  /\ Len(f_result) = Len(pos)
            /\ \A j \in 1..Len(pos) : f_result[j].source = f_urls[pos[j]]

C6_Witness ==
    /\ f_pc = "done"
    /\ Len(f_urls) = 3
    /\ f_outs[1] = "fail"
    /\ f_outs[2] = "empty"
    /\ f_outs[3] = "text"
    /\ Len(f_result) = 1
    /\ f_result[1].source = f_urls[3]

\* C7: no failure of a pipeline step escapes as an unhandled error: no
\* script run ends in an exception.
C7_NoUnhandledError ==
    run_status # "exception"

Kept(old, new) ==
    \A i \in DOMAIN old : i \in DOMAIN new /\ new[i] = old[i]

\* C8: as long as clear() was never called, every chunk passed to a
\* successful add is an entry of the on-disk index, across later adds and
\* restarts; entries disappear only when a check resolves a marker that
\* clear() wrote.
C8_RunningIndex ==
    /\ [](~clear_called => Kept(added, index))
    /\ [][~Kept(index, index')
             => (pc = "check" /\ marker_file /\ clear_called)]_vars

C8_Witness ==
    /\ pc = "form" /\ startup
    /\ ~clear_called
    /\ Len(added) >= 2
    /\ Kept(added, index)

\* C9: a call of clear() creates the marker file and resets the
\* processed-URL state; the index directory and its entries are as before.
C9_ClearDefers ==
    [][(pc = "form" /\ trigger = "clear" /\ pc' = "question")
          => (/\ index' = index
              /\ chroma_dir' = chroma_dir
              /\ marker_file => marker_file'
              /\ processed_urls' = <<>>
              /\ UNCHANGED <<session_key, question, question_shown>>)]_vars

C9_Witness ==
    /\ pc = "question" /\ trigger = "clear"
    /\ marker_file /\ marker_this_proc
    /\ chroma_dir
    /\ index # <<>>
    /\ processed_urls = <<>>

\* C10: whenever the question section is evaluated with a non-empty
\* processed-URL state, the index directory exists.
C10_IndexExistsWhenAsked ==
    (pc = "question" /\ processed_urls # <<>>) => chroma_dir

====
